---- MODULE Spec2Model ----
(***************************************************************************)
(* State-machine model of the segment grid and the export pipeline of      *)
(* src/python/video_cutter.py (class VideoCutter).                          *)
(*                                                                         *)
(* Conventions                                                             *)
(*   - Python's None is the empty sequence <<>>, a value v is <<v>>.        *)
(*   - Rows are 1-based here (Python row r is row r+1); selected = 0 is    *)
(*     "no row selected" (_selected_row_index() returns None).             *)
(*   - A JSON field is a record [kind, val]: kind "int" is a value that    *)
(*     int() converts to val, "bad" a value on which int() raises,         *)
(*     "missing" an absent key.                                            *)
(*   - jobs is the list of QProcess/QProgressDialog pairs created by       *)
(*     _run_ffmpeg_with_progress whose process has not yet been reported   *)
(*     finished, in creation order.                                        *)
(*   - status_msg is the kind of the message the status bar shows:         *)
(*     "Saved" (a done_msg), "Grid loaded", "Failed to load grid",         *)
(*     "Grid saved", or "other" for every other text.                      *)
(*   - saved_file is the content of the file the user names in the         *)
(*     "Save grid as..." dialog (<<>> while it does not exist).            *)
(*   - table_titles is the text of the TITLE cell of every table row, in   *)
(*     row order (the IN, OUT and DURATION cells are not editable and are  *)
(*     written from the segment when the row is made).                     *)
(***************************************************************************)
EXTENDS Integers, Sequences, FiniteSets, TLC

VARIABLES
    loaded_path,            \* TRUE iff self._loaded_path is not None
    duration_ms,            \* self._duration_ms
    in_ms,                  \* self.slider.in_ms   (<<>> = None)
    out_ms,                 \* self.slider.out_ms  (<<>> = None)
    segments,               \* self._segments
    selected,               \* selected table row, 0 = none
    grid_source_duration,   \* self._grid_source_duration (<<>> = None)
    chk_scale_grid,         \* self.chk_scale_grid.isChecked()
    chk_nvdec,              \* self.chk_nvdec.isChecked()
    chk_h265,               \* self.chk_h265.isChecked()
    saved_file,             \* document written by save_grid_to_json
    table_titles,           \* self.table.item(r, 3).text() for every row r
    jobs,                   \* live processes with their progress dialogs
    status_msg              \* kind of the last statusBar().showMessage

vars == <<loaded_path, duration_ms, in_ms, out_ms, segments, selected,
          grid_source_duration, chk_scale_grid, chk_nvdec, chk_h265,
          saved_file, table_titles, jobs, status_msg>>

\* The two codec checkboxes of the options row
codec_opts == <<chk_nvdec, chk_h265>>

----------------------------------------------------------------------------
(* Bounds of the model *)

MaxMs == 1          \* player positions and document times range over 0..MaxMs
MaxDur == 2         \* media durations reported by the player: 1..MaxDur
MaxSegs == 2        \* rows the grid may hold
MaxDocSegs == 1     \* segments in a loaded document
ScaleRange == 5     \* SpecScale: stored times range over -ScaleRange..ScaleRange
ScaleDur == 4       \* SpecScale: current and reference durations 1..ScaleDur
GridMs == 1         \* SpecGrid: times of the initial segments 0..GridMs
GridDur == 1        \* SpecGrid: initial durations 0..GridDur
MaxH == 1           \* SpecProgress: hours of a time= stamp 0..MaxH
MaxMin == 1         \* SpecProgress: minutes of a time= stamp 0..MaxMin
MaxSec == 5         \* SpecProgress: seconds of a time= stamp 0..MaxSec
BatchMs == 2        \* SpecBatch: stored times range over 0..BatchMs
BatchDur == 2       \* SpecBatch: current and reference durations 1..BatchDur
RemoveRows == 3     \* SpecRemove: rows of the loaded grid

----------------------------------------------------------------------------
(* Helpers *)

None == <<>>

Some(v) == <<v>>

Min(a, b) == IF a <= b THEN a ELSE b

Max(a, b) == IF a >= b THEN a ELSE b

clamp_no_upper(v, lo, hi) == Max(lo, v)

clamp(v, lo, hi) == Max(lo, Min(hi, v))

RoundDown(n, d) == n \div d

\* int(round(n / d)) for d > 0: Python 3 rounds halves to the even neighbour.
\* (\div and % floor towards minus infinity, as needed for negative n.)
RoundHalfEven(n, d) ==
    LET q == n \div d
        r == n % d
    IN  IF 2 * r < d THEN q
        ELSE IF 2 * r > d THEN q + 1
        ELSE IF q % 2 = 0 THEN q ELSE q + 1

Segment(s, e, t) == [start_ms |-> s, end_ms |-> e, title |-> t]

\* The TITLE cells _refresh_table (and _append_segment_row for one row)
\* writes for the segments segs: as_row()[3], the segment's title.
RowTitles(segs) == [i \in 1..Len(segs) |-> segs[i].title]

DelAt_last(lst, i) == SubSeq(lst, 1, Len(lst) - 1)

\* del lst[i] (1-based i)
DelAt(lst, i) == [k \in 1..(Len(lst) - 1) |-> IF k < i THEN lst[k] ELSE lst[k + 1]]

\* A QProgressDialog with ApplicationModal modality is on screen: the main
\* window (buttons, shortcuts, menu, table) receives no input meanwhile.
\* The dialog of a job hides on Cancel, an instant before the killed process
\* is reported finished; no user input is modelled in that instant either.
ModalOpen == jobs # <<>>

----------------------------------------------------------------------------
(* State after VideoCutter.__init__ without an initial path *)

Init ==
    /\ loaded_path = FALSE
    /\ duration_ms = 0
    /\ in_ms = None
    /\ out_ms = None
    /\ segments = <<>>
    /\ selected = 0
    /\ grid_source_duration = None
    /\ chk_scale_grid \in BOOLEAN       \* restored from QSettings
    /\ chk_nvdec = FALSE                \* the defaults of "use_nvdec" and
    /\ chk_h265 = FALSE                 \* "use_h265" (nothing stored yet)
    /\ saved_file = None
    /\ table_titles = RowTitles(segments)
    /\ jobs = <<>>
    /\ status_msg = "other"

----------------------------------------------------------------------------
(* Opening a file and the 100 ms position poll *)

\* open_path: ok = FALSE is any of the failure exits (_show_error), which
\* clear the marks and forget the loaded path; ok = TRUE loads and clears marks.
open_path(ok) ==
    /\ ~ModalOpen
    /\ loaded_path' = ok
    /\ in_ms' = None
    /\ out_ms' = None
    /\ status_msg' = "other"
    /\ UNCHANGED <<duration_ms, segments, selected, grid_source_duration,
                   chk_scale_grid, codec_opts, saved_file, jobs, table_titles>>

\* _poll_position (QTimer, also runs while a modal dialog is open): the
\* player reports length dur; a length <= 0 or equal to the stored one is a
\* step that changes nothing.
poll_position(dur) ==
    /\ loaded_path
    /\ dur > 0 /\ dur # duration_ms
    /\ duration_ms' = dur
    /\ UNCHANGED <<loaded_path, in_ms, out_ms, segments, selected,
                   grid_source_duration, chk_scale_grid,
                   codec_opts, saved_file, jobs, status_msg, table_titles>>

\* _poll_position when the player is in the Error state: _show_error.
poll_error ==
    /\ loaded_path
    /\ loaded_path' = FALSE
    /\ in_ms' = None
    /\ out_ms' = None
    /\ status_msg' = "other"
    /\ UNCHANGED <<duration_ms, segments, selected, grid_source_duration,
                   chk_scale_grid, codec_opts, saved_file, jobs, table_titles>>

----------------------------------------------------------------------------
(* Marks; t is current_ms(), the player position (>= 0) *)

set_in(t) ==
    /\ ~ModalOpen
    /\ out_ms' = IF out_ms # None /\ t >= out_ms[1] THEN None ELSE out_ms
    /\ in_ms' = Some(t)
    /\ status_msg' = "other"
    /\ UNCHANGED <<loaded_path, duration_ms, segments, selected,
                   grid_source_duration, chk_scale_grid,
                   codec_opts, saved_file, jobs, table_titles>>

set_out_as_is(t) ==
    /\ ~ModalOpen
    /\ in_ms' = Some(IF in_ms = None THEN 0 ELSE in_ms[1])
    /\ out_ms' = Some(t)
    /\ status_msg' = "other"
    /\ UNCHANGED <<loaded_path, duration_ms, segments, selected,
                   grid_source_duration, chk_scale_grid,
                   codec_opts, saved_file, jobs, table_titles>>

set_out(t) ==
    LET in0 == IF in_ms = None THEN 0 ELSE in_ms[1]
        t1  == IF t <= in0 THEN in0 + 1 ELSE t
    IN  /\ ~ModalOpen
        /\ in_ms' = Some(in0)
        /\ out_ms' = Some(t1)
        /\ status_msg' = "other"
        /\ UNCHANGED <<loaded_path, duration_ms, segments, selected,
                       grid_source_duration, chk_scale_grid,
                       codec_opts, saved_file, jobs, table_titles>>

clear_marks ==
    /\ ~ModalOpen
    /\ in_ms' = None
    /\ out_ms' = None
    /\ UNCHANGED <<loaded_path, duration_ms, segments, selected,
                   grid_source_duration, chk_scale_grid,
                   codec_opts, saved_file, jobs, status_msg, table_titles>>

----------------------------------------------------------------------------
(* Segment grid *)

MarksValid_unordered == in_ms # None /\ out_ms # None

\* The guard of add_segment_from_marks's second early return.
MarksValid == in_ms # None /\ out_ms # None /\ out_ms[1] > in_ms[1]

add_segment_from_marks_front ==
    /\ ~ModalOpen
    /\ Len(segments) < MaxSegs
    /\ IF duration_ms <= 0 \/ ~MarksValid
       THEN /\ status_msg' = "other"
            /\ UNCHANGED <<loaded_path, duration_ms, in_ms, out_ms, segments,
                           selected, grid_source_duration, chk_scale_grid,
                           codec_opts, saved_file, jobs, table_titles>>
       ELSE /\ segments' = <<Segment(in_ms[1], out_ms[1], "")>> \o segments
            /\ table_titles' = <<"">> \o table_titles
            /\ selected' = 1
            /\ in_ms' = None
            /\ out_ms' = None
            /\ UNCHANGED <<loaded_path, duration_ms, grid_source_duration,
                           chk_scale_grid,
                           codec_opts, saved_file, jobs, status_msg>>

\* add_segment_from_marks: both early returns only show a message;
\* otherwise the segment is appended, its row selected (which puts its frame
\* on the slider) and the marks are cleared again by the trailing clear_marks.
add_segment_from_marks ==
    /\ ~ModalOpen
    /\ Len(segments) < MaxSegs
    /\ IF duration_ms <= 0 \/ ~MarksValid
       THEN /\ status_msg' = "other"
            /\ UNCHANGED <<loaded_path, duration_ms, in_ms, out_ms, segments,
                           selected, grid_source_duration, chk_scale_grid,
                           codec_opts, saved_file, jobs, table_titles>>
       ELSE /\ segments' = Append(segments, Segment(in_ms[1], out_ms[1], ""))
            /\ table_titles' = Append(table_titles, "")
            /\ selected' = Len(segments) + 1
            /\ in_ms' = None
            /\ out_ms' = None
            /\ UNCHANGED <<loaded_path, duration_ms, grid_source_duration,
                           chk_scale_grid,
                           codec_opts, saved_file, jobs, status_msg>>

\* The user selects row i: itemSelectionChanged -> _on_table_selection_changed
\* -> _show_segment_on_slider(seg).
select_row(i) ==
    /\ ~ModalOpen
    /\ i \in 1..Len(segments)
    /\ i # selected
    /\ selected' = i
    /\ in_ms' = Some(segments[i].start_ms)
    /\ out_ms' = Some(segments[i].end_ms)
    /\ UNCHANGED <<loaded_path, duration_ms, segments, grid_source_duration,
                   chk_scale_grid, codec_opts, saved_file, jobs, status_msg,
                   table_titles>>

\* The user deselects the row: _on_table_selection_changed returns at idx None.
deselect_row ==
    /\ ~ModalOpen
    /\ selected # 0
    /\ selected' = 0
    /\ UNCHANGED <<loaded_path, duration_ms, in_ms, out_ms, segments,
                   grid_source_duration, chk_scale_grid,
                   codec_opts, saved_file, jobs, status_msg, table_titles>>

\* The user edits the TITLE cell of the selected row (EditKeyPressed, or a
\* double click on it) and commits text. The table has no itemChanged or
\* cellChanged slot: the cell keeps the text and nothing else happens.
edit_title(text) ==
    /\ ~ModalOpen
    /\ selected \in 1..Len(table_titles)
    /\ text # table_titles[selected]
    /\ table_titles' = [table_titles EXCEPT ![selected] = text]
    /\ UNCHANGED <<loaded_path, duration_ms, in_ms, out_ms, segments, selected,
                   grid_source_duration, chk_scale_grid, codec_opts,
                   saved_file, jobs, status_msg>>

\* remove_selected_segment. Which row the table selects after removeRow is
\* the toolkit's choice (n, 0 = none); a newly selected row reaches
\* _on_table_selection_changed, which reads the already shortened list.
remove_selected_segment(n) ==
    /\ ~ModalOpen
    /\ IF selected = 0
       THEN n = 0 /\ UNCHANGED vars         \* idx is None: return
       ELSE LET rest == DelAt(segments, selected)
            IN  /\ n \in 0..Len(rest)
                /\ segments' = rest
                /\ table_titles' = DelAt(table_titles, selected)
                /\ selected' = n
                /\ in_ms' = IF n = 0 THEN in_ms ELSE Some(rest[n].start_ms)
                /\ out_ms' = IF n = 0 THEN out_ms ELSE Some(rest[n].end_ms)
                /\ UNCHANGED <<loaded_path, duration_ms, grid_source_duration,
                               chk_scale_grid,
                               codec_opts, saved_file, jobs, status_msg>>

clear_grid ==
    /\ ~ModalOpen
    /\ segments' = <<>>
    /\ table_titles' = <<>>
    /\ selected' = 0
    /\ UNCHANGED <<loaded_path, duration_ms, in_ms, out_ms,
                   grid_source_duration, chk_scale_grid,
                   codec_opts, saved_file, jobs, status_msg>>

\* The user toggles the "Scale grid to current video" checkbox.
toggle_scale_grid ==
    /\ ~ModalOpen
    /\ chk_scale_grid' = ~chk_scale_grid
    /\ UNCHANGED <<loaded_path, duration_ms, in_ms, out_ms, segments, selected,
                   grid_source_duration, codec_opts, saved_file, jobs,
                   status_msg, table_titles>>

----------------------------------------------------------------------------
(* Loading a grid document *)

IntField(v) == [kind |-> "int", val |-> v]

BadField == [kind |-> "bad", val |-> 0]

MissingField == [kind |-> "missing", val |-> 0]

DocFields == {IntField(v) : v \in 0..MaxMs} \cup {BadField, MissingField}

DocTitles == {"a"}

DocSegments ==
    [start_ms : DocFields, end_ms : DocFields, title : DocTitles]

\* A file on which open() or json.load() raises, or whose top level is not
\* an object.
Unreadable ==
    [readable |-> FALSE, segments |-> <<>>, source_duration_ms |-> MissingField]

\* An absent "segments" key reads as the empty list.
Documents ==
    {Unreadable} \cup
    [readable : {TRUE},
     segments : UNION {[1..n -> DocSegments] : n \in 0..MaxDocSegs},
     source_duration_ms : DocFields]

\* d["start_ms"] / d["end_ms"] raise KeyError when missing, int() raises
\* ValueError/TypeError on a value it cannot convert.
SegmentRaises(d) == d.start_ms.kind # "int" \/ d.end_ms.kind # "int"

\* The statements of the try block up to and including the for loop raise.
ParseRaises(doc) ==
    \/ ~doc.readable
    \/ \E i \in 1..Len(doc.segments) : SegmentRaises(doc.segments[i])

\* segs as built by the for loop
ParsedSegments(doc) ==
    [i \in 1..Len(doc.segments) |->
        Segment(doc.segments[i].start_ms.val, doc.segments[i].end_ms.val,
                doc.segments[i].title)]

DurationRaises_never(doc) == FALSE

\* int(data.get("source_duration_ms", 0)) raises
DurationRaises(doc) == doc.source_duration_ms.kind = "bad"

\* The value of int(data.get("source_duration_ms", 0)) when it does not raise
ParsedDuration(doc) ==
    IF doc.source_duration_ms.kind = "missing" THEN 0
    ELSE doc.source_duration_ms.val

\* The except branch is taken ("Failed to load grid").
LoadFails(doc) == ParseRaises(doc) \/ DurationRaises(doc)

\* load_grid_from_json with the document the chosen file holds. The
\* segment list is replaced and the table rebuilt (no row selected) before
\* source_duration_ms is converted.
load_grid_from_json(doc) ==
    /\ ~ModalOpen
    /\ status_msg' = IF LoadFails(doc) THEN "Failed to load grid"
                      ELSE "Grid loaded"
    /\ IF ParseRaises(doc)
       THEN UNCHANGED <<segments, table_titles, selected,
                        grid_source_duration>>
       ELSE /\ segments' = ParsedSegments(doc)
            /\ table_titles' = RowTitles(ParsedSegments(doc))
            /\ selected' = 0
            /\ grid_source_duration' =
                   IF DurationRaises(doc) THEN grid_source_duration
                   ELSE Some(ParsedDuration(doc))
    /\ UNCHANGED <<loaded_path, duration_ms, in_ms, out_ms, chk_scale_grid,
                   codec_opts, saved_file, jobs>>

----------------------------------------------------------------------------
(* Saving the grid, and loading the saved file back *)

\* asdict(s) as json.dump writes it and json.load reads it back: the two
\* times are JSON integers, the title a JSON string.
asdict_times_swapped(s) ==
    [start_ms |-> IntField(s.end_ms), end_ms |-> IntField(s.start_ms),
     title |-> s.title]

asdict(s) ==
    [start_ms |-> IntField(s.start_ms), end_ms |-> IntField(s.end_ms),
     title |-> s.title]

\* The dictionary data of save_grid_to_json, as a document:
\* "source_duration_ms" is int(self._duration_ms), the length of the media
\* open at the time of saving.
SavedDocument ==
    [readable |-> TRUE,
     segments |-> [i \in 1..Len(segments) |-> asdict(segments[i])],
     source_duration_ms |-> IntField(duration_ms)]

\* What writing the file can do: "ok", open() raises (the file stays as it
\* was), or json.dump raises after open() truncated the file.
WriteOutcomes == {"ok", "open raises", "dump raises"}

\* save_grid_to_json, the file dialog being confirmed. An empty grid only
\* shows "Grid is empty." and nothing is written.
save_grid_to_json(w) ==
    /\ ~ModalOpen
    /\ IF segments = <<>>
       THEN /\ w = "ok"
            /\ status_msg' = "other"
            /\ UNCHANGED saved_file
       ELSE /\ saved_file' = CASE w = "ok" -> Some(SavedDocument)
                               [] w = "open raises" -> saved_file
                               [] w = "dump raises" -> Some(Unreadable)
            /\ status_msg' = IF w = "ok" THEN "Grid saved" ELSE "other"
    /\ UNCHANGED <<loaded_path, duration_ms, in_ms, out_ms, segments, selected,
                   grid_source_duration, chk_scale_grid, codec_opts, jobs,
                   table_titles>>

\* load_grid_from_json, the user picking the file save_grid_to_json wrote
load_saved_grid ==
    /\ saved_file # None
    /\ load_grid_from_json(saved_file[1])

----------------------------------------------------------------------------
(* Export *)

\* ms_to_hhmmss_ms(ms): the text "hh:mm:ss.mmm" as its four numbers
\* <<h, m, s, msec>> (two texts are equal iff their numbers are: the fields
\* are separated by ':' and '.', later both replaced by '-', and zero-padded
\* to fixed minimum widths). A negative ms is formatted as 0.
ms_to_hhmmss_ms(ms) ==
    LET ms0  == IF ms < 0 THEN 0 ELSE ms
        secs == ms0 \div 1000
        msec == ms0 % 1000
        h    == secs \div 3600
        rem  == secs % 3600
    IN  <<h, rem \div 60, rem % 60, msec>>

\* title.strip().replace(" ", "_") on the titles of the model
strip_replace(title) ==
    CASE title = "a " -> "a"
      [] title = " a" -> "a"
      [] title = "a b" -> "a_b"
      [] OTHER -> title

\* base_title of export_segments for row i: the normalised title, or
\* "seg<i>" when the title is empty (text "seg", number n).
base_title(i) ==
    IF segments[i].title # ""
    THEN [text |-> strip_replace(segments[i].title), n |-> 0]
    ELSE [text |-> "seg", n |-> i]

\* fname of export_segments for row i cut at <<s, e>>:
\* "<stem>_<base_title>_<from>_<to>.mp4" inside the chosen directory.
fname(i, s, e) ==
    [base |-> base_title(i), from |-> ms_to_hhmmss_ms(s),
     to |-> ms_to_hhmmss_ms(e)]

\* The name export_current_or_selected proposes in its save dialog and the
\* user accepts: no time stamps for a selected row, no title for the marks.
proposed_name(i, s, e) ==
    IF i # 0
    THEN [base |-> base_title(i), from |-> <<>>, to |-> <<>>]
    ELSE [base |-> [text |-> "", n |-> 0], from |-> ms_to_hhmmss_ms(s),
          to |-> ms_to_hhmmss_ms(e)]

ffmpeg_cmd_always_software ==
    <<"ffmpeg", "-y", "-hide_banner", "-loglevel", "info">>
    \o (IF chk_nvdec THEN <<"-hwaccel", "cuda">> ELSE <<>>)
    \o <<"-ss", "<in_ts>", "-t", "<duration_s>", "-i", "<input_path>">>
    \o (IF chk_h265
        THEN <<"-c:v", "libx265", "-crf", "23", "-preset", "medium",
               "-c:a", "copy">>
        ELSE <<"-c", "copy">>)
    \o <<"<out_path>">>

\* _ffmpeg_cmd: the argument vector, the four arguments of the call standing
\* as "<in_ts>", "<duration_s>", "<input_path>" and "<out_path>" (their
\* values are the job's s_ms, e_ms - s_ms and out_path).
ffmpeg_cmd ==
    <<"ffmpeg", "-y", "-hide_banner", "-loglevel", "info">>
    \o (IF chk_nvdec THEN <<"-hwaccel", "cuda">> ELSE <<>>)
    \o <<"-ss", "<in_ts>", "-t", "<duration_s>", "-i", "<input_path>">>
    \o (IF chk_h265
        THEN IF chk_nvdec
             THEN <<"-c:v", "hevc_nvenc", "-preset", "medium",
                    "-c:a", "copy">>
             ELSE <<"-c:v", "libx265", "-crf", "23", "-preset", "medium",
                    "-c:a", "copy">>
        ELSE <<"-c", "copy">>)
    \o <<"<out_path>">>

\* What _run_ffmpeg_with_progress leaves behind when it returns: a QProcess
\* asked to cut [s, e) (-ss s/1000 -t (e-s)/1000) into out_path, behind a
\* visible modal progress dialog. row is the grid row the job was planned
\* from (0: from the IN/OUT marks). proc is "Running", "Killed" once
\* on_cancel has killed it (the dialog is then hidden), or "FailedToStart"
\* when proc.start() could not run ffmpeg (started = FALSE): QProcess then
\* emits errorOccurred, to which nothing is connected, and never finished.
\* stamp is <<h, m_, s, ms_>> of the last time= match of on_out and percent
\* the value it gave to prog.setValue (<<>>: no match yet).
run_ffmpeg_with_progress(row, s, e, out_path, started) ==
    [row |-> row, s_ms |-> s, e_ms |-> e, out_path |-> out_path,
     cmd |-> ffmpeg_cmd, stamp |-> None, percent |-> None,
     proc |-> IF started THEN "Running" ELSE "FailedToStart"]

\* export_current_or_selected, the save dialog being confirmed. The selected
\* row takes priority over the marks; without a row and without valid marks
\* the handler shows a message and returns.
export_current_or_selected(started) ==
    /\ ~ModalOpen
    /\ loaded_path
    /\ IF selected \in 1..Len(segments)
       THEN /\ jobs' = <<run_ffmpeg_with_progress(selected,
                            segments[selected].start_ms,
                            segments[selected].end_ms,
                            proposed_name(selected,
                                          segments[selected].start_ms,
                                          segments[selected].end_ms),
                            started)>>
            /\ UNCHANGED status_msg
       ELSE IF ~MarksValid
            THEN /\ status_msg' = "other"
                 /\ UNCHANGED jobs
            ELSE /\ jobs' = <<run_ffmpeg_with_progress(0, in_ms[1], out_ms[1],
                                 proposed_name(0, in_ms[1], out_ms[1]),
                                 started)>>
                 /\ UNCHANGED status_msg
    /\ UNCHANGED <<loaded_path, duration_ms, in_ms, out_ms, segments, selected,
                   grid_source_duration, chk_scale_grid,
                   codec_opts, saved_file, table_titles>>

\* The rebasing condition of export_segments (src_dur is None or an int).
ScalingApplies ==
    /\ chk_scale_grid
    /\ grid_source_duration # None
    /\ grid_source_duration[1] > 0
    /\ duration_ms > 0

Rebase_end_before_last(seg, cur_dur, src_dur) ==
    LET s1 == RoundHalfEven(seg.start_ms * cur_dur, src_dur)
        e1 == RoundHalfEven(seg.end_ms * cur_dur, src_dur)
        s2 == clamp(s1, 0, Max(0, cur_dur - 1))
        e2 == clamp(e1, 0, Max(0, cur_dur - 1))
    IN  <<s2, IF e2 <= s2 THEN Min(cur_dur, s2 + 1) ELSE e2>>

\* The body of the "if scale and ..." block for one segment: the pair
\* <<s_ms, e_ms>> after rebasing from src_dur to cur_dur.
\* s_ms * (cur_dur / float(src_dur)) is taken as the exact quotient.
Rebase(seg, cur_dur, src_dur) ==
    LET s1 == RoundHalfEven(seg.start_ms * cur_dur, src_dur)
        e1 == RoundHalfEven(seg.end_ms * cur_dur, src_dur)
        s2 == clamp(s1, 0, Max(0, cur_dur - 1))
        e2 == clamp(e1, 0, Max(0, cur_dur))
    IN  <<s2, IF e2 <= s2 THEN Min(cur_dur, s2 + 1) ELSE e2>>

\* <<s_ms, e_ms>> as the loop body of export_segments computes them for row i
ExportTimes(i) ==
    IF ScalingApplies
    THEN Rebase(segments[i], duration_ms, grid_source_duration[1])
    ELSE <<segments[i].start_ms, segments[i].end_ms>>

\* The for loop of export_segments over rows: every iteration returns from
\* _run_ffmpeg_with_progress right after proc.start() and prog.show(), so
\* the whole loop runs inside the one handler call. Every iteration starts
\* the same program, so either all processes start or none does.
ExportRows(rows, started) ==
    [k \in 1..Len(rows) |->
        run_ffmpeg_with_progress(rows[k], ExportTimes(rows[k])[1],
                                 ExportTimes(rows[k])[2],
                                 fname(rows[k], ExportTimes(rows[k])[1],
                                       ExportTimes(rows[k])[2]),
                                 started)]

export_segments_writing_back(selected_only, started) ==
    /\ ~ModalOpen
    /\ loaded_path
    /\ IF segments = <<>> \/ (selected_only /\ selected = 0)
       THEN /\ status_msg' = "other"
            /\ UNCHANGED <<jobs, segments>>
       ELSE /\ jobs' = ExportRows(IF selected_only THEN <<selected>>
                                  ELSE [k \in 1..Len(segments) |-> k],
                                  started)
            /\ segments' =
                   [k \in 1..Len(segments) |->
                       IF selected_only /\ k # selected THEN segments[k]
                       ELSE Segment(ExportTimes(k)[1], ExportTimes(k)[2],
                                    segments[k].title)]
            /\ UNCHANGED status_msg
    /\ UNCHANGED <<loaded_path, duration_ms, in_ms, out_ms, selected,
                   grid_source_duration, chk_scale_grid,
                   codec_opts, saved_file, table_titles>>

\* export_segments(selected_only), the directory dialog being confirmed.
\* An empty grid, or no selected row with selected_only, shows a message.
export_segments(selected_only, started) ==
    /\ ~ModalOpen
    /\ loaded_path
    /\ IF segments = <<>> \/ (selected_only /\ selected = 0)
       THEN /\ status_msg' = "other"
            /\ UNCHANGED jobs
       ELSE /\ jobs' = ExportRows(IF selected_only THEN <<selected>>
                                  ELSE [k \in 1..Len(segments) |-> k],
                                  started)
            /\ UNCHANGED status_msg
    /\ UNCHANGED <<loaded_path, duration_ms, in_ms, out_ms, segments, selected,
                   grid_source_duration, chk_scale_grid,
                   codec_opts, saved_file, table_titles>>

\* The user ticks or unticks one of the codec checkboxes.
toggle_nvdec ==
    /\ ~ModalOpen
    /\ chk_nvdec' = ~chk_nvdec
    /\ UNCHANGED <<loaded_path, duration_ms, in_ms, out_ms, segments, selected,
                   grid_source_duration, chk_scale_grid, chk_h265,
                   saved_file, jobs, status_msg, table_titles>>

toggle_h265 ==
    /\ ~ModalOpen
    /\ chk_h265' = ~chk_h265
    /\ UNCHANGED <<loaded_path, duration_ms, in_ms, out_ms, segments, selected,
                   grid_source_duration, chk_scale_grid, chk_nvdec,
                   saved_file, jobs, status_msg, table_titles>>

----------------------------------------------------------------------------
(* Process and dialog events of job j (its position among the live jobs) *)

\* total of _run_ffmpeg_with_progress in milliseconds:
\* max(0.001, total_seconds) with total_seconds = (e_ms - s_ms) / 1000.0
total_ms(job) == Max(1, job.e_ms - job.s_ms)

\* elapsed of on_out in hundredths of a second, for a match of
\* time=(\d+):(\d+):(\d+)\.(\d+) with groups h, m, s, ff
elapsed_cs(h, m, s, ff) == (h * 3600 + m * 60 + s) * 100 + ff

on_out_percent_rounded(h, m, s, ff, total, low) ==
    Min(100, Max(0, RoundHalfEven(1000 * elapsed_cs(h, m, s, ff), total)))

\* int(min(100, max(0, (elapsed/total)*100))): int() drops the fraction.
\* The quotient is a float: where elapsed/total*100 is a whole number p >= 1
\* the float may fall just below p (0.29/1.0*100 is 28.999999999999996),
\* and int() then gives p - 1; low is that case.
on_out_percent(h, m, s, ff, total, low) ==
    LET q == (1000 * elapsed_cs(h, m, s, ff)) \div total
    IN  Min(100, Max(0, IF low THEN q - 1 ELSE q))

\* elapsed/total*100 is a whole number >= 1
WholePercent(h, m, s, ff, total) ==
    /\ (1000 * elapsed_cs(h, m, s, ff)) % total = 0
    /\ 1000 * elapsed_cs(h, m, s, ff) >= total

\* on_out, the slot of proc.readyReadStandardOutput, for job j and output
\* holding one line that matches time_re (lines without a match change
\* nothing; several matching lines act like several calls).
on_out(j, h, m, s, ff, low) ==
    /\ j \in 1..Len(jobs)
    /\ jobs[j].proc = "Running"
    /\ low => WholePercent(h, m, s, ff, total_ms(jobs[j]))
    /\ jobs' = [jobs EXCEPT
                   ![j].stamp = <<h, m, s, ff>>,
                   ![j].percent =
                       Some(on_out_percent(h, m, s, ff, total_ms(jobs[j]), low))]
    /\ UNCHANGED <<loaded_path, duration_ms, in_ms, out_ms, segments, selected,
                   grid_source_duration, chk_scale_grid,
                   codec_opts, saved_file, status_msg, table_titles>>

\* on_done(_code, _status), the slot of proc.finished, for job j. Neither
\* argument is read: the bar is set to 100, the dialog closed and done_msg
\* ("Saved: <out_path>") shown.
on_done(j, code, status) ==
    /\ jobs' = DelAt(jobs, j)
    /\ status_msg' = "Saved"
    /\ UNCHANGED <<loaded_path, duration_ms, in_ms, out_ms, segments, selected,
                   grid_source_duration, chk_scale_grid,
                   codec_opts, saved_file, table_titles>>

\* The process of job j ends by itself: finished(code, status) reaches
\* on_done, status being NormalExit or CrashExit.
process_exits(j, code, status) ==
    /\ j \in 1..Len(jobs)
    /\ jobs[j].proc = "Running"
    /\ on_done(j, code, status)

\* The user presses Cancel in the dialog of job j: the dialog hides and
\* on_cancel calls proc.kill().
on_cancel(j) ==
    /\ j \in 1..Len(jobs)
    /\ jobs[j].proc = "Running"
    /\ jobs' = [jobs EXCEPT ![j].proc = "Killed"]
    /\ UNCHANGED <<loaded_path, duration_ms, in_ms, out_ms, segments, selected,
                   grid_source_duration, chk_scale_grid,
                   codec_opts, saved_file, status_msg, table_titles>>

\* The user presses Cancel in the dialog of a job whose process never
\* started: the dialog hides, on_cancel's proc.kill() does nothing, and no
\* finished signal will follow, so nothing of the job is left.
cancel_unstarted(j) ==
    /\ j \in 1..Len(jobs)
    /\ jobs[j].proc = "FailedToStart"
    /\ jobs' = DelAt(jobs, j)
    /\ UNCHANGED <<loaded_path, duration_ms, in_ms, out_ms, segments, selected,
                   grid_source_duration, chk_scale_grid,
                   codec_opts, saved_file, status_msg, table_titles>>

\* The killed process of job j is reaped: finished(code, CrashExit) reaches
\* on_done (the code reported for a killed process is the platform's choice).
killed_process_finished(j, code) ==
    /\ j \in 1..Len(jobs)
    /\ jobs[j].proc = "Killed"
    /\ on_done(j, code, "CrashExit")

----------------------------------------------------------------------------
(* The application *)

ExitCodes == {0, 1}

ExitStatuses == {"NormalExit", "CrashExit"}

Next ==
    \/ \E ok \in BOOLEAN : open_path(ok)
    \/ \E dur \in 1..MaxDur : poll_position(dur)
    \/ poll_error
    \/ \E t \in 0..MaxMs : set_in(t)
    \/ \E t \in 0..MaxMs : set_out(t)
    \/ clear_marks
    \/ add_segment_from_marks
    \/ \E i \in 1..MaxSegs : select_row(i)
    \/ deselect_row
    \/ \E n \in 0..MaxSegs : remove_selected_segment(n)
    \/ clear_grid
    \/ toggle_scale_grid
    \/ \E doc \in Documents : load_grid_from_json(doc)
    \/ \E started \in BOOLEAN : export_current_or_selected(started)
    \/ \E selected_only \in BOOLEAN, started \in BOOLEAN :
           export_segments(selected_only, started)
    \/ \E j \in 1..MaxSegs, code \in ExitCodes, status \in ExitStatuses :
           process_exits(j, code, status)
    \/ \E j \in 1..MaxSegs : on_cancel(j)
    \/ \E j \in 1..MaxSegs : cancel_unstarted(j)
    \/ \E j \in 1..MaxSegs, code \in ExitCodes : killed_process_finished(j, code)

Spec == Init /\ [][Next]_vars

----------------------------------------------------------------------------
(* Rebasing at export, over a wider range of stored times: a video of      *)
(* duration cur is open, a one-segment document with arbitrary integer     *)
(* times and reference duration src > 0 has been loaded, and the scale     *)
(* checkbox is ticked.                                                     *)

InitScale ==
    /\ loaded_path = TRUE
    /\ \/ /\ duration_ms \in 1..ScaleDur
          /\ \E s \in -ScaleRange..ScaleRange, e \in -ScaleRange..ScaleRange :
                 segments = <<Segment(s, e, "a")>>
          /\ \E src \in 1..ScaleDur : grid_source_duration = Some(src)
       \/ /\ duration_ms = 120000       \* a grid made for a 60 s video,
          /\ segments = <<Segment(1000, 3000, "a")>>   \* a 120 s video open
          /\ grid_source_duration = Some(60000)
    /\ in_ms = None
    /\ out_ms = None
    /\ selected = 0
    /\ chk_scale_grid = TRUE
    /\ chk_nvdec = FALSE
    /\ chk_h265 = FALSE
    /\ saved_file = None
    /\ table_titles = RowTitles(segments)
    /\ jobs = <<>>
    /\ status_msg = "Grid loaded"

NextScale ==
    \/ \E selected_only \in BOOLEAN, started \in BOOLEAN :
           export_segments(selected_only, started)
    \/ \E j \in 1..MaxSegs, code \in ExitCodes, status \in ExitStatuses :
           process_exits(j, code, status)
    \/ \E j \in 1..MaxSegs : on_cancel(j)
    \/ \E j \in 1..MaxSegs : cancel_unstarted(j)
    \/ \E j \in 1..MaxSegs, code \in ExitCodes : killed_process_finished(j, code)

SpecScale == InitScale /\ [][NextScale]_vars

----------------------------------------------------------------------------
(* Marks and grid only: a video is open (its length may not be known yet) *)
(* and a document with at most one segment, of any integer times in       *)
(* 0..MaxMs, has been loaded; the user works with the marks and the grid. *)

InitMarks ==
    /\ loaded_path = TRUE
    /\ duration_ms \in 0..MaxDur
    /\ in_ms = None
    /\ out_ms = None
    /\ \/ segments = <<>>
       \/ \E s \in 0..MaxMs, e \in 0..MaxMs : segments = <<Segment(s, e, "a")>>
    /\ selected = 0
    /\ grid_source_duration = Some(0)
    /\ chk_scale_grid = FALSE
    /\ chk_nvdec = FALSE
    /\ chk_h265 = FALSE
    /\ saved_file = None
    /\ table_titles = RowTitles(segments)
    /\ jobs = <<>>
    /\ status_msg = "Grid loaded"

NextMarks ==
    \/ \E t \in 0..MaxMs : set_in(t)
    \/ \E t \in 0..MaxMs : set_out(t)
    \/ clear_marks
    \/ add_segment_from_marks
    \/ \E i \in 1..MaxSegs : select_row(i)
    \/ deselect_row
    \/ \E n \in 0..MaxSegs : remove_selected_segment(n)
    \/ clear_grid

SpecMarks == InitMarks /\ [][NextMarks]_vars

----------------------------------------------------------------------------
(* Authoring a grid from the marks: a video has been opened (its length   *)
(* may not be known yet), no document was ever loaded; the user sets and  *)
(* clears marks, adds, selects and removes rows and exports the grid, the *)
(* processes running to their end.                                        *)

InitAuthor ==
    /\ loaded_path = TRUE
    /\ duration_ms \in 0..MaxDur
    /\ in_ms = None
    /\ out_ms = None
    /\ segments = <<>>
    /\ selected = 0
    /\ grid_source_duration = None
    /\ chk_scale_grid = TRUE
    /\ chk_nvdec = FALSE
    /\ chk_h265 = FALSE
    /\ saved_file = None
    /\ table_titles = RowTitles(segments)
    /\ jobs = <<>>
    /\ status_msg = "other"

NextAuthor ==
    \/ \E t \in 0..MaxMs : set_in(t)
    \/ \E t \in 0..MaxMs : set_out(t)
    \/ clear_marks
    \/ add_segment_from_marks
    \/ \E i \in 1..MaxSegs : select_row(i)
    \/ deselect_row
    \/ \E n \in 0..MaxSegs : remove_selected_segment(n)
    \/ clear_grid
    \/ \E selected_only \in BOOLEAN : export_segments(selected_only, TRUE)
    \/ \E j \in 1..MaxSegs, code \in ExitCodes, status \in ExitStatuses :
           process_exits(j, code, status)

SpecAuthor == InitAuthor /\ [][NextAuthor]_vars

----------------------------------------------------------------------------
(* Exporting a loaded grid: a video of known length is open and a         *)
(* document of two segments with times in 0..MaxMs and a reference        *)
(* duration > 0 has been loaded; the user selects rows, toggles the scale *)
(* checkbox and exports single clips and batches.                         *)

InitExport ==
    /\ loaded_path = TRUE
    /\ duration_ms \in 1..MaxDur
    /\ in_ms = None
    /\ out_ms = None
    /\ \E s1 \in 0..MaxMs, e1 \in 0..MaxMs, s2 \in 0..MaxMs, e2 \in 0..MaxMs :
           segments = <<Segment(s1, e1, "a"), Segment(s2, e2, "a")>>
    /\ selected = 0
    /\ \E src \in 1..MaxDur : grid_source_duration = Some(src)
    /\ chk_scale_grid \in BOOLEAN
    /\ chk_nvdec = FALSE
    /\ chk_h265 = FALSE
    /\ saved_file = None
    /\ table_titles = RowTitles(segments)
    /\ jobs = <<>>
    /\ status_msg = "Grid loaded"

NextExport ==
    \/ \E i \in 1..MaxSegs : select_row(i)
    \/ deselect_row
    \/ toggle_scale_grid
    \/ \E started \in BOOLEAN : export_current_or_selected(started)
    \/ \E selected_only \in BOOLEAN, started \in BOOLEAN :
           export_segments(selected_only, started)
    \/ \E j \in 1..MaxSegs, code \in ExitCodes, status \in ExitStatuses :
           process_exits(j, code, status)
    \/ \E j \in 1..MaxSegs : on_cancel(j)
    \/ \E j \in 1..MaxSegs : cancel_unstarted(j)
    \/ \E j \in 1..MaxSegs, code \in ExitCodes : killed_process_finished(j, code)

SpecExport == InitExport /\ [][NextExport]_vars

----------------------------------------------------------------------------
(* Adding to a loaded grid: a video of known length is open and a         *)
(* document with at most one segment (title "a") and some reference       *)
(* duration has been loaded; the user marks and adds segments on the open *)
(* video (title ""), may clear the grid, and exports batches. The length  *)
(* of the video does not change.                                          *)

InitMixed ==
    /\ loaded_path = TRUE
    /\ duration_ms \in 1..MaxDur
    /\ in_ms = None
    /\ out_ms = None
    /\ \/ segments = <<>>
       \/ \E s \in 0..MaxMs, e \in 0..MaxMs : segments = <<Segment(s, e, "a")>>
    /\ selected = 0
    /\ \E src \in 0..MaxDur : grid_source_duration = Some(src)
    /\ chk_scale_grid \in BOOLEAN
    /\ chk_nvdec = FALSE
    /\ chk_h265 = FALSE
    /\ saved_file = None
    /\ table_titles = RowTitles(segments)
    /\ jobs = <<>>
    /\ status_msg = "Grid loaded"

NextMixed ==
    \/ \E t \in 0..MaxMs : set_in(t)
    \/ \E t \in 0..MaxMs : set_out(t)
    \/ clear_marks
    \/ add_segment_from_marks
    \/ \E i \in 1..MaxSegs : select_row(i)
    \/ deselect_row
    \/ clear_grid
    \/ toggle_scale_grid
    \/ \E selected_only \in BOOLEAN : export_segments(selected_only, TRUE)
    \/ \E j \in 1..MaxSegs, code \in ExitCodes, status \in ExitStatuses :
           process_exits(j, code, status)

SpecMixed == InitMixed /\ [][NextMixed]_vars

----------------------------------------------------------------------------
(* Titles: a video of known length has been opened; the user adds        *)
(* segments from the marks, types titles into the TITLE cells, removes   *)
(* rows, saves the grid, loads it back and exports batches.              *)

\* the texts the user types into a TITLE cell
EditTitles == {"", "b"}

InitTitles ==
    /\ loaded_path = TRUE
    /\ duration_ms \in 1..MaxDur
    /\ in_ms = None
    /\ out_ms = None
    /\ segments = <<>>
    /\ selected = 0
    /\ grid_source_duration = None
    /\ chk_scale_grid = FALSE
    /\ chk_nvdec = FALSE
    /\ chk_h265 = FALSE
    /\ saved_file = None
    /\ table_titles = RowTitles(segments)
    /\ jobs = <<>>
    /\ status_msg = "other"

NextTitles ==
    \/ \E t \in 0..MaxMs : set_out(t)
    \/ add_segment_from_marks
    \/ \E i \in 1..MaxSegs : select_row(i)
    \/ deselect_row
    \/ \E text \in EditTitles : edit_title(text)
    \/ \E n \in 0..MaxSegs : remove_selected_segment(n)
    \/ save_grid_to_json("ok")
    \/ load_saved_grid
    \/ \E selected_only \in BOOLEAN : export_segments(selected_only, TRUE)
    \/ \E j \in 1..MaxSegs, code \in ExitCodes, status \in ExitStatuses :
           process_exits(j, code, status)

SpecTitles == InitTitles /\ [][NextTitles]_vars

----------------------------------------------------------------------------
(* Removing rows: a video is open and a document of RemoveRows segments,  *)
(* row k being (k-1, k, "a"), has been loaded; the user selects, removes, *)
(* clears and adds rows (added rows have the title "").                   *)

InitRemove ==
    /\ loaded_path = TRUE
    /\ duration_ms \in 1..MaxDur
    /\ in_ms = None
    /\ out_ms = None
    /\ segments = [k \in 1..RemoveRows |-> Segment(k - 1, k, "a")]
    /\ selected = 0
    /\ grid_source_duration = Some(duration_ms)
    /\ chk_scale_grid = FALSE
    /\ chk_nvdec = FALSE
    /\ chk_h265 = FALSE
    /\ saved_file = None
    /\ table_titles = RowTitles(segments)
    /\ jobs = <<>>
    /\ status_msg = "Grid loaded"

NextRemove ==
    \/ \E i \in 1..RemoveRows : select_row(i)
    \/ deselect_row
    \/ \E n \in 0..RemoveRows : remove_selected_segment(n)
    \/ clear_grid
    \/ \E t \in 0..MaxMs : set_in(t)
    \/ \E t \in 0..MaxMs : set_out(t)
    \/ clear_marks
    \/ add_segment_from_marks

SpecRemove == InitRemove /\ [][NextRemove]_vars

----------------------------------------------------------------------------
(* Progress of a single export: a video is open, a one-segment document    *)
(* has been loaded and its row selected, so that the marks show the        *)
(* segment; the clip is exported and ffmpeg prints time= stamps.           *)

\* ends of the segment (the job is planned for 0, 1, 3 or 130 seconds)
ProgressEnds == {0, 1000, 3000, 130000}

\* the digits after the point of a time= stamp
FracValues == {0, 29, 50, 67, 99}

InitProgress ==
    /\ loaded_path = TRUE
    /\ duration_ms \in ProgressEnds \ {0}
    /\ \E e \in ProgressEnds :
          /\ segments = <<Segment(0, e, "a")>>
          /\ out_ms = Some(e)
    /\ in_ms = Some(0)
    /\ selected = 1
    /\ grid_source_duration = Some(duration_ms)
    /\ chk_scale_grid = FALSE
    /\ chk_nvdec = FALSE
    /\ chk_h265 = FALSE
    /\ saved_file = None
    /\ table_titles = RowTitles(segments)
    /\ jobs = <<>>
    /\ status_msg = "Grid loaded"

NextProgress ==
    \/ \E started \in BOOLEAN : export_current_or_selected(started)
    \/ \E j \in 1..MaxSegs, h \in 0..MaxH, m \in 0..MaxMin, s \in 0..MaxSec,
          ff \in FracValues, low \in BOOLEAN : on_out(j, h, m, s, ff, low)
    \/ \E j \in 1..MaxSegs, code \in ExitCodes, status \in ExitStatuses :
           process_exits(j, code, status)
    \/ \E j \in 1..MaxSegs : on_cancel(j)
    \/ \E j \in 1..MaxSegs : cancel_unstarted(j)
    \/ \E j \in 1..MaxSegs, code \in ExitCodes : killed_process_finished(j, code)

SpecProgress == InitProgress /\ [][NextProgress]_vars

----------------------------------------------------------------------------
(* Batch export of a two-row grid: a video of known length is open and a   *)
(* two-segment document with non-negative times, titles "" or "a" and a    *)
(* reference duration > 0 has been loaded.                                 *)

InitBatch ==
    /\ loaded_path = TRUE
    /\ duration_ms \in 1..BatchDur
    /\ in_ms = None
    /\ out_ms = None
    /\ \E s1 \in 0..BatchMs, e1 \in 0..BatchMs, s2 \in 0..BatchMs,
          e2 \in 0..BatchMs, t1 \in {"", "a"}, t2 \in {"", "a"} :
           segments = <<Segment(s1, e1, t1), Segment(s2, e2, t2)>>
    /\ selected = 0
    /\ \E src \in 1..BatchDur : grid_source_duration = Some(src)
    /\ chk_scale_grid \in BOOLEAN
    /\ chk_nvdec = FALSE
    /\ chk_h265 = FALSE
    /\ saved_file = None
    /\ table_titles = RowTitles(segments)
    /\ jobs = <<>>
    /\ status_msg = "Grid loaded"

NextBatch ==
    \/ \E selected_only \in BOOLEAN, started \in BOOLEAN :
           export_segments(selected_only, started)
    \/ \E j \in 1..MaxSegs, code \in ExitCodes, status \in ExitStatuses :
           process_exits(j, code, status)
    \/ \E j \in 1..MaxSegs : on_cancel(j)
    \/ \E j \in 1..MaxSegs : cancel_unstarted(j)
    \/ \E j \in 1..MaxSegs, code \in ExitCodes : killed_process_finished(j, code)

SpecBatch == InitBatch /\ [][NextBatch]_vars

----------------------------------------------------------------------------
(* Codec options: a video is open, a one-segment document has been loaded, *)
(* the two codec checkboxes are as QSettings restored them and the user    *)
(* toggles them between exports.                                           *)

InitCodec ==
    /\ loaded_path = TRUE
    /\ duration_ms \in 1..MaxDur
    /\ in_ms = None
    /\ out_ms = None
    /\ segments = <<Segment(0, 1, "a")>>
    /\ selected = 0
    /\ grid_source_duration = Some(duration_ms)
    /\ chk_scale_grid = FALSE
    /\ chk_nvdec \in BOOLEAN
    /\ chk_h265 \in BOOLEAN
    /\ saved_file = None
    /\ table_titles = RowTitles(segments)
    /\ jobs = <<>>
    /\ status_msg = "Grid loaded"

NextCodec ==
    \/ toggle_nvdec
    \/ toggle_h265
    \/ \E i \in 1..MaxSegs : select_row(i)
    \/ deselect_row
    \/ \E started \in BOOLEAN : export_current_or_selected(started)
    \/ \E selected_only \in BOOLEAN, started \in BOOLEAN :
           export_segments(selected_only, started)
    \/ \E j \in 1..MaxSegs, code \in ExitCodes, status \in ExitStatuses :
           process_exits(j, code, status)
    \/ \E j \in 1..MaxSegs : on_cancel(j)
    \/ \E j \in 1..MaxSegs : cancel_unstarted(j)
    \/ \E j \in 1..MaxSegs, code \in ExitCodes : killed_process_finished(j, code)

SpecCodec == InitCodec /\ [][NextCodec]_vars

----------------------------------------------------------------------------
(* Saving and loading grid documents: a video is open (its length may not  *)
(* be known yet), the grid holds up to MaxSegs valid segments, typed in    *)
(* from the marks (title "") or loaded earlier (title "a"), and a          *)
(* reference duration may have been loaded.                                *)

GridSegments ==
    {Segment(s, e, ttl) : s \in 0..GridMs, e \in 0..GridMs, ttl \in {"", "a"}}

InitGrid ==
    /\ loaded_path = TRUE
    /\ duration_ms \in 0..GridDur
    /\ in_ms = None
    /\ out_ms = None
    /\ \E n \in 0..MaxSegs :
         \E segs \in [1..n -> {g \in GridSegments : g.end_ms > g.start_ms}] :
             segments = segs
    /\ selected = 0
    /\ grid_source_duration \in {None} \cup {Some(d) : d \in 0..GridDur}
    /\ chk_scale_grid = FALSE
    /\ chk_nvdec = FALSE
    /\ chk_h265 = FALSE
    /\ saved_file = None
    /\ table_titles = RowTitles(segments)
    /\ jobs = <<>>
    /\ status_msg = "other"

NextGrid ==
    \/ \E w \in WriteOutcomes : save_grid_to_json(w)
    \/ load_saved_grid
    \/ \E dur \in 1..MaxDur : poll_position(dur)
    \/ clear_grid

SpecGrid == InitGrid /\ [][NextGrid]_vars

----------------------------------------------------------------------------
(* Loading documents only: a video has just been opened and a file with   *)
(* some document exists; the user loads it, clears the grid and toggles   *)
(* the scale checkbox while the player reports the length.                *)

InitLoad ==
    /\ loaded_path = TRUE
    /\ duration_ms = 0
    /\ in_ms = None
    /\ out_ms = None
    /\ segments = <<>>
    /\ selected = 0
    /\ grid_source_duration = None
    /\ chk_scale_grid \in BOOLEAN
    /\ chk_nvdec = FALSE
    /\ chk_h265 = FALSE
    /\ \E doc \in Documents : saved_file = Some(doc)
    /\ table_titles = RowTitles(segments)
    /\ jobs = <<>>
    /\ status_msg = "other"

NextLoad ==
    \/ load_saved_grid
    \/ \E dur \in 1..MaxDur : poll_position(dur)
    \/ clear_grid
    \/ toggle_scale_grid

SpecLoad == InitLoad /\ [][NextLoad]_vars

----------------------------------------------------------------------------
(* Properties *)

Running(j) == jobs[j].proc = "Running"

\* C1: within one batch export the transcoder processes run one after
\* another: at most one process of the batch is Running at any time.
\* (Main-window input is blocked while a job is live, so the live jobs are
\* always the jobs of one export call.)
C1_JobsSequential ==
    Cardinality({j \in 1..Len(jobs) : Running(j)}) <= 1

\* C2: every segment held in the timeline satisfies end_ms > start_ms.
C2_SegmentsValid ==
    \A i \in 1..Len(segments) : segments[i].end_ms > segments[i].start_ms

\* C3: when a transcode process exits, the job is reported as saved exactly
\* when it exited normally with exit code 0; a non-zero exit code or an
\* abnormal termination is never reported as a successful save.
C3_ExitStatusDecides ==
    [][\A j \in 1..Len(jobs), code \in ExitCodes, status \in ExitStatuses :
          process_exits(j, code, status) =>
             (status_msg' = "Saved" <=> (code = 0 /\ status = "NormalExit"))
      ]_vars

\* C4: no transcode job is started for a range with end <= start, whether
\* it comes from the selected segment, the IN/OUT marks or a stored segment
\* of a batch (scaled or not).
C4_NoJobForInvalidRange ==
    \A j \in 1..Len(jobs) : jobs[j].e_ms > jobs[j].s_ms

\* C5: loading is all-or-nothing: a load that fails leaves the segment list
\* and the reference duration exactly as they were.
C5_LoadAtomic ==
    [][\A doc \in Documents :
          (LoadFails(doc) /\ load_grid_from_json(doc)) =>
             (segments' = segments
              /\ grid_source_duration' = grid_source_duration)
      ]_vars

\* C6: batch export is best-effort and records every outcome: when a job of
\* a batch with further live jobs exits non-zero, the other jobs of the
\* batch go on, and the failed job is not listed as saved.
C6_BatchRecordsFailure ==
    [][\A j \in 1..Len(jobs), code \in ExitCodes :
          (Len(jobs) >= 2 /\ code # 0 /\ process_exits(j, code, "NormalExit")) =>
             (jobs' = DelAt(jobs, j) /\ status_msg' # "Saved")
      ]_vars

\* C7: cancelling during a batch export terminates the job in flight and
\* leaves no other job of that batch running or yet to run: right after a
\* cancel no process of the batch is Running.
C7_CancelStopsBatch ==
    [][\A j \in 1..Len(jobs) :
          on_cancel(j) => \A k \in 1..Len(jobs') : jobs'[k].proc # "Running"
      ]_vars

\* C8: a job cancelled while Running ends as Cancelled: when its killed
\* process is reported finished, it is not reported as a saved output.
C8_CancelledNotSaved ==
    [][\A j \in 1..Len(jobs), code \in ExitCodes :
          killed_process_finished(j, code) => status_msg' # "Saved"
      ]_vars

\* C9: whenever the rebasing step of export_segments applies (scaling
\* ticked, reference duration > 0, current duration >= 1), the times of
\* every job it plans satisfy 0 <= start < end <= current duration, for any
\* stored integer start_ms and end_ms.
C9_ScalingSafety ==
    \A j \in 1..Len(jobs) :
        ScalingApplies =>
            /\ 0 <= jobs[j].s_ms
            /\ jobs[j].s_ms < jobs[j].e_ms
            /\ jobs[j].e_ms <= duration_ms

\* C9 witness: a job planned from a stored segment with end_ms <= start_ms
\* whose rebased end fell on or before its start and was forced to start+1.
C9_Witness ==
    \E j \in 1..Len(jobs) :
        /\ ScalingApplies
        /\ segments[jobs[j].row].end_ms <= segments[jobs[j].row].start_ms
        /\ jobs[j].e_ms = jobs[j].s_ms + 1

\* C10: every job launched by an export (single or batch, scaled or not)
\* ends inside the currently opened media: once the media's duration is
\* known, e_ms <= _duration_ms at launch.
C10_ExportWithinMedia ==
    [][(duration_ms > 0 /\ jobs = <<>> /\ jobs' # <<>>) =>
          \A j \in 1..Len(jobs') : jobs'[j].e_ms <= duration_ms
      ]_vars

C12_ReferenceDurationKept ==
    [][(/\ status_msg = "Grid loaded"
        /\ segments # <<>>
        /\ grid_source_duration # None
        /\ grid_source_duration[1] > 0
        /\ duration_ms > 0
        /\ save_grid_to_json("ok")) =>
          saved_file'[1].source_duration_ms = IntField(grid_source_duration[1])
      ]_vars

\* C13 as stated: loading a readable document fails with an error whenever
\* start_ms or end_ms of a segment or source_duration_ms is missing or not
\* convertible to an integer.
C13_MissingFieldFails ==
    [][(/\ load_saved_grid
        /\ saved_file[1].readable
        /\ \/ saved_file[1].source_duration_ms.kind # "int"
           \/ \E i \in 1..Len(saved_file[1].segments) :
                 \/ saved_file[1].segments[i].start_ms.kind # "int"
                 \/ saved_file[1].segments[i].end_ms.kind # "int") =>
          status_msg' = "Failed to load grid"
      ]_vars

\* C13 amended: loading a readable document fails with an error whenever
\* start_ms or end_ms of a segment is missing or not convertible, or
\* source_duration_ms is present and not convertible; a document that lacks
\* only source_duration_ms loads, with the reference duration read as 0.
C13_BadFieldFails ==
    [][(load_saved_grid /\ saved_file[1].readable) =>
          LET doc == saved_file[1]
              seg_bad == \E i \in 1..Len(doc.segments) :
                            \/ doc.segments[i].start_ms.kind # "int"
                            \/ doc.segments[i].end_ms.kind # "int"
          IN  /\ (seg_bad \/ doc.source_duration_ms.kind = "bad") =>
                    status_msg' = "Failed to load grid"
              /\ (~seg_bad /\ doc.source_duration_ms.kind = "missing") =>
                    /\ status_msg' = "Grid loaded"
                    /\ grid_source_duration' = Some(0)
      ]_vars

\* C13 witness: a load has failed on the conversion of source_duration_ms,
\* after the segments of the document had replaced the grid (no reference
\* duration has ever been loaded, yet the grid holds a loaded segment).
C13_Witness ==
    /\ status_msg = "Failed to load grid"
    /\ grid_source_duration = None
    /\ \E i \in 1..Len(segments) : segments[i].title = "a"

\* C14: add_segment_from_marks called while a mark is unset or
\* out_ms <= in_ms adds no segment: the segment list (count and contents)
\* is the same after the call.
C14_RejectedAddChangesNothing ==
    [][((in_ms = None \/ out_ms = None \/ out_ms[1] <= in_ms[1])
        /\ add_segment_from_marks) =>
          segments' = segments
      ]_vars

\* C14 witness: a video of known length is open and both marks are set
\* with OUT <= IN (they show a loaded segment whose end is not after its
\* start); add_segment_from_marks has answered "Set valid IN/OUT first."
\* and the grid is as it was.
C14_Witness ==
    /\ duration_ms > 0
    /\ in_ms # None /\ out_ms # None /\ out_ms[1] <= in_ms[1]
    /\ status_msg = "other"
    /\ segments # <<>>
    /\ Len(segments) < MaxSegs

\* C15 as stated: after an output line with time=HH:MM:SS.ff the progress
\* bar shows clamp(round(elapsed / total * 100), 0, 100) with
\* elapsed = H*3600 + M*60 + S + ff/100, rounded to the nearest integer
\* (checked here where the quotient is not a whole number, so that its
\* floating-point value is not in question).
C15_PercentRounded ==
    \A j \in 1..Len(jobs) :
        jobs[j].stamp # None =>
            LET st  == jobs[j].stamp
                num == 1000 * ((st[1] * 3600 + st[2] * 60 + st[3]) * 100 + st[4])
                tot == Max(1, jobs[j].e_ms - jobs[j].s_ms)
            IN  num % tot # 0 =>
                   jobs[j].percent =
                       Some(clamp(RoundHalfEven(num, tot), 0, 100))

\* C15 amended: after an output line with time=HH:MM:SS.ff the progress bar
\* shows a value r within 0..100 that is elapsed/total*100 with its
\* fraction dropped, never rounded up: r <= elapsed/total*100, and below
\* 100 also elapsed/total*100 <= r + 1 (equality only where the quotient
\* is a whole number that the float arithmetic undershoots);
\* time=00:01:05.50 of a 130 s job gives 50.
C15_PercentTruncated ==
    \A j \in 1..Len(jobs) :
        jobs[j].stamp # None =>
            LET st  == jobs[j].stamp
                num == 1000 * ((st[1] * 3600 + st[2] * 60 + st[3]) * 100 + st[4])
                tot == Max(1, jobs[j].e_ms - jobs[j].s_ms)
                r   == jobs[j].percent[1]
            IN  /\ r \in 0..100
                /\ r * tot <= num
                /\ r < 100 => (r + 1) * tot >= num
                /\ (st = <<0, 1, 5, 50>> /\ tot = 130000) => r = 50

\* C15 witness: the line time=00:01:05.50 has been read for a job planned
\* for 130 s and its bar shows 50.
C15_Witness ==
    \E j \in 1..Len(jobs) :
        /\ jobs[j].e_ms - jobs[j].s_ms = 130000
        /\ jobs[j].stamp = <<0, 1, 5, 50>>
        /\ jobs[j].percent = Some(50)

\* C16: within one batch, two rows with equal titles and different
\* (start_ms, end_ms) pairs get different output file names (checked here
\* for rows with 0 <= start_ms < end_ms).
C16_NamesDistinct ==
    \A j \in 1..Len(jobs), k \in 1..Len(jobs) :
        LET a == segments[jobs[j].row]
            b == segments[jobs[k].row]
        IN  (/\ j # k
             /\ a.title = b.title
             /\ <<a.start_ms, a.end_ms>> # <<b.start_ms, b.end_ms>>
             /\ 0 <= a.start_ms /\ a.start_ms < a.end_ms
             /\ 0 <= b.start_ms /\ b.start_ms < b.end_ms) =>
                jobs[j].out_path # jobs[k].out_path

C18_ScalingMultiplies ==
    \A j \in 1..Len(jobs) :
        ScalingApplies =>
            LET seg == segments[jobs[j].row]
                cur == duration_ms
                ref == grid_source_duration[1]
                sx  == seg.start_ms * cur
                ex  == seg.end_ms * cur
                sj  == jobs[j].s_ms
                ej  == jobs[j].e_ms
            IN  /\ (/\ 2 * sx >= -ref
                    /\ -((-(2 * sx)) \div ref) <= 2 * cur - 1
                    /\ 2 * ex >= -ref
                    /\ -((-(2 * ex)) \div ref) <= 2 * cur + 1
                    /\ 2 * ex >= (2 * sj + 1) * ref) =>
                       /\ 2 * (sj * ref - sx) <= ref
                       /\ 2 * (sx - sj * ref) <= ref
                       /\ 2 * (ej * ref - ex) <= ref
                       /\ 2 * (ex - ej * ref) <= ref
                       /\ jobs[j].out_path.base.text = seg.title
                /\ (seg = Segment(1000, 3000, "a") /\ cur = 120000
                    /\ ref = 60000) =>
                       (sj = 2000 /\ ej = 6000)

\* C18 witness: the job of the example, cut at (2000, 6000) and named "a".
C18_Witness ==
    \E j \in 1..Len(jobs) :
        /\ ScalingApplies
        /\ segments[jobs[j].row] = Segment(1000, 3000, "a")
        /\ grid_source_duration = Some(60000)
        /\ duration_ms = 120000
        /\ jobs[j].s_ms = 2000
        /\ jobs[j].e_ms = 6000
        /\ jobs[j].out_path.base.text = "a"

\* C19: the command of every job follows the codec table: it contains
\* "-hwaccel cuda" exactly when the NVIDIA-decode box is ticked, "-c copy"
\* exactly when the H.265 box is not ticked, and with H.265 ticked the
\* video encoder is hevc_nvenc when NVIDIA decode is ticked and libx265
\* otherwise.
C19_CodecPolicy ==
    \A j \in 1..Len(jobs) :
        LET cmd == jobs[j].cmd
            Has(a, b) == \E k \in 1..(Len(cmd) - 1) : cmd[k] = a /\ cmd[k + 1] = b
        IN  /\ Has("-hwaccel", "cuda") <=> chk_nvdec
            /\ Has("-c", "copy") <=> ~chk_h265
            /\ Has("-c:v", "hevc_nvenc") <=> (chk_h265 /\ chk_nvdec)
            /\ Has("-c:v", "libx265") <=> (chk_h265 /\ ~chk_nvdec)

\* C19 witness: a job launched with both boxes ticked, encoding with
\* hevc_nvenc.
C19_Witness ==
    \E j \in 1..Len(jobs) :
        /\ chk_nvdec /\ chk_h265
        /\ \E k \in 1..(Len(jobs[j].cmd) - 1) :
              jobs[j].cmd[k] = "-c:v" /\ jobs[j].cmd[k + 1] = "hevc_nvenc"

\* C20: a job whose transcoder could not be started ends in an error state
\* at once: it is never left among the jobs in progress (its progress
\* dialog up, waiting for a process that will never report).
C20_LaunchFailureEndsJob ==
    \A j \in 1..Len(jobs) : jobs[j].proc # "FailedToStart"

C22_AddAppends ==
    [][/\ (duration_ms > 0 /\ MarksValid /\ add_segment_from_marks) =>
              /\ Len(segments') = Len(segments) + 1
              /\ \A k \in 1..Len(segments) : segments'[k] = segments[k]
              /\ segments'[Len(segments')].start_ms = in_ms[1]
              /\ segments'[Len(segments')].end_ms = out_ms[1]
       /\ (export_segments(FALSE, TRUE) /\ jobs' # jobs) =>
              /\ Len(jobs') = Len(segments)
              /\ \A k \in 1..Len(segments) :
                     /\ jobs'[k].s_ms = segments[k].start_ms
                     /\ jobs'[k].e_ms = segments[k].end_ms
      ]_vars

\* C22 witness: the segment added second lies before the one added first
\* and still is the second row; the batch export cuts them in that order.
C22_Witness ==
    /\ Len(segments) = 2
    /\ segments[2].end_ms <= segments[1].start_ms
    /\ Len(jobs) = 2
    /\ jobs[1].s_ms = segments[1].start_ms
    /\ jobs[2].s_ms = segments[2].start_ms

\* C23: export never mutates the timeline: a step of
\* export_current_or_selected or of export_segments, scaling ticked or not,
\* leaves the stored segments (times, titles, order) and the stored
\* reference duration as they were; rebased times are in the jobs only.
C23_ExportKeepsTimeline ==
    [][((\E started \in BOOLEAN : export_current_or_selected(started))
        \/ (\E selected_only \in BOOLEAN, started \in BOOLEAN :
               export_segments(selected_only, started))) =>
          /\ segments' = segments
          /\ grid_source_duration' = grid_source_duration
      ]_vars

\* C23 witness: a batch export with scaling applied has planned a job whose
\* rebased times differ from the times its segment still holds.
C23_Witness ==
    /\ ScalingApplies
    /\ \E j \in 1..Len(jobs) :
          /\ jobs[j].out_path.from # <<>>
          /\ <<jobs[j].s_ms, jobs[j].e_ms>> #
                <<segments[jobs[j].row].start_ms, segments[jobs[j].row].end_ms>>
          /\ <<jobs[j].s_ms, jobs[j].e_ms>> = ExportTimes(jobs[j].row)

\* C24: rebasing at export applies only to segments authored against the
\* stored reference duration: a job export_segments plans for a segment
\* that add_segment_from_marks created on the open video (the rows with the
\* title "" of SpecMixed) cuts exactly the marked start_ms and end_ms.
C24_AddedSegmentNotRebased ==
    \A j \in 1..Len(jobs) :
        segments[jobs[j].row].title = "" =>
            /\ jobs[j].s_ms = segments[jobs[j].row].start_ms
            /\ jobs[j].e_ms = segments[jobs[j].row].end_ms

\* C25: mark invariant: after any sequence of set_in, set_out, clear_marks,
\* add_segment_from_marks and selections of rows of the grid so authored,
\* whenever both the IN and the OUT mark are set, out_ms > in_ms.
C25_MarksOrdered ==
    (in_ms # None /\ out_ms # None) => out_ms[1] > in_ms[1]

\* C25 witness: OUT was asked at or before IN and was put one past it
\* (with positions 0..MaxMs, the mark MaxMs + 1 has no other origin).
C25_Witness ==
    /\ in_ms = Some(MaxMs)
    /\ out_ms = Some(MaxMs + 1)

\* C26: the title shown in the TITLE cell of row i is the title of segment
\* i: after any sequence of add, title edit, remove and load the cell of
\* every row shows its segment's title, and the file name of every job
\* planned from a row is built from the title that row shows.
C26_TitleShownIsTitleUsed ==
    /\ Len(table_titles) = Len(segments)
    /\ \A i \in 1..Len(segments) : table_titles[i] = segments[i].title
    /\ \A j \in 1..Len(jobs) :
          jobs[j].out_path.base =
             IF table_titles[jobs[j].row] # ""
             THEN [text |-> strip_replace(table_titles[jobs[j].row]), n |-> 0]
             ELSE [text |-> "seg", n |-> jobs[j].row]

====
